---- MODULE Spec2Model ----
(***************************************************************************)
(* Trailing-orders trading system: the decision engine                     *)
(* (trading_system/systems/trailing_orders/system.py) and the BlinkTrade   *)
(* response normalisation (trading_system/api/orders.py).                  *)
(*                                                                         *)
(* Python values are modelled as follows.  A dict is a function whose      *)
(* domain is the set of keys present.  None is the record None; a long is  *)
(* wrapped as Long(v), so that "absent" and a number never share a type.   *)
(* Prices are integers counted in the rounding increment.                  *)
(***************************************************************************)
EXTENDS Integers, Sequences, FiniteSets, TLC

VARIABLES
    client_type,     \* which IClient implementation the engine was built with
    setup,           \* TrailingOrders.setup (a TrailingOrderSetup)
    is_tracking,     \* TrailingOrders.is_tracking
    balance,         \* TrailingOrders.balance
    pending_orders,  \* TrailingOrders.pending_orders
    cycle,           \* observation of the last run(): inputs, calls made, outcome
    api,             \* observation of the last BlinkTradeOrdersApi call
    orders_placed    \* history of the orders the engine placed: the side it was
                     \* started on, the side of the last order accepted, and
                     \* whether that order has yet to be reported fully filled

vars == <<client_type, setup, is_tracking, balance, pending_orders, cycle, api, orders_placed>>

----------------------------------------------------------------------------
(* Python values *)

None == [class |-> "NoneType"]

Long(v) == [class |-> "long", value |-> v]

NotImplemented == [class |-> "NotImplementedType"]

Min(a, b) == IF a <= b THEN a ELSE b

\* dict.get(key) for a string-valued field followed by str(): str(None) = 'None'
StrGet(d, key) == IF key \in DOMAIN d THEN d[key] ELSE "None"

\* dict(zip(keys, values)): zip stops at the shorter sequence, later duplicates win
ZipDict(keys, values) ==
    LET n == Min(Len(keys), Len(values))
    IN  [k \in {keys[i] : i \in 1..n} |->
            values[CHOOSE i \in 1..n : keys[i] = k /\ \A j \in (i+1)..n : keys[j] # k]]

\* [f(x) for x in seq]
RECURSIVE FlattenSeq(_)
FlattenSeq(ss) == IF ss = <<>> THEN <<>> ELSE Head(ss) \o FlattenSeq(Tail(ss))

----------------------------------------------------------------------------
(* Wire constants (trading_system.api.consts) *)

BUY == "BUY"
SELL == "SELL"

PLACE_ORDER_RESPONSE == "PLACE_ORDER_RESPONSE"
ORDER_STATUS_RESPONSE == "ORDER_STATUS_RESPONSE"
BALANCE_RESPONSE == "BALANCE_RESPONSE"

REJECTED == "REJECTED"
FILLED == "FILLED"
PARTIALLY_FILLED == "PARTIALLY_FILLED"
ORDER_NEW == "NEW"

\* self.client.broker and self.client.currency of the BlinkTrade client
Broker == "4"
Currency == "BRL"
CurrencyLocked == "BRL_locked"

\* client.get_currency_value: integer minor units to currency units
CurrencyScale == 100000000
get_currency_value(v) == v \div CurrencyScale

----------------------------------------------------------------------------
(* BlinkTradeOrdersApi: response normalisation *)

Raise(name, item) == [raised |-> name, item |-> item, value |-> <<>>]
Return(value) == [raised |-> "none", item |-> None, value |-> value]

_get_long_from_dict_or_none(source, key) ==
    LET present == "key" \in DOMAIN source
    IN  IF present /\ source["key"] # 0 THEN Long(source["key"]) ELSE None

_make_placed_order_from_dict(order) ==
    [ class |-> "PlacedOrder",
      order_id |-> _get_long_from_dict_or_none(order, "OrderID"),
      time_in_force |-> StrGet(order, "TimeInForce"),
      exec_id |-> _get_long_from_dict_or_none(order, "ExecID"),
      exec_type |-> StrGet(order, "ExecType"),
      order_status |-> StrGet(order, "OrdStatus"),
      cum_quantity |-> _get_long_from_dict_or_none(order, "CumQty"),
      price |-> _get_long_from_dict_or_none(order, "Price"),
      symbol |-> StrGet(order, "Symbol"),
      order_quantity |-> _get_long_from_dict_or_none(order, "OrderQty"),
      last_shares |-> _get_long_from_dict_or_none(order, "LastShares"),
      last_px |-> _get_long_from_dict_or_none(order, "LastPx"),
      cxl_quantity |-> _get_long_from_dict_or_none(order, "CxlQty"),
      volume |-> _get_long_from_dict_or_none(order, "Volume"),
      leaves_quantity |-> _get_long_from_dict_or_none(order, "LeavesQty"),
      message_type |-> StrGet(order, "MsgType"),
      exec_side |-> StrGet(order, "ExecSide"),
      order_type |-> StrGet(order, "OrdType"),
      order_rejection_reason |-> StrGet(order, "OrdRejReason"),
      side |-> StrGet(order, "Side"),
      client_order_id |-> _get_long_from_dict_or_none(order, "ClOrdID"),
      average_px |-> _get_long_from_dict_or_none(order, "AvgPx") ]

_get_placed_order_from_response(response) ==
    LET order_list == SelectSeq(response.Responses,
                                LAMBDA r : r["MsgType"] = PLACE_ORDER_RESPONSE)
    IN  [i \in 1..Len(order_list) |-> _make_placed_order_from_dict(order_list[i])]

_make_placed_order_from_order_status_response(response) ==
    LET keys == response["Columns"]
        values_list == response["OrdListGrp"]
        dict_list == [i \in 1..Len(values_list) |-> ZipDict(keys, values_list[i])]
    IN  [i \in 1..Len(dict_list) |-> _make_placed_order_from_dict(dict_list[i])]

_get_order_status_from_response(response) ==
    LET responses == SelectSeq(response.Responses,
                               LAMBDA r : r["MsgType"] = ORDER_STATUS_RESPONSE)
        multilevel_order_list ==
            [i \in 1..Len(responses) |->
                _make_placed_order_from_order_status_response(responses[i])]
    IN  FlattenSeq(multilevel_order_list)

\* variant of _get_orders_from_response concatenating the other way round
_get_orders_from_response_grid_first(response) ==
    _get_order_status_from_response(response) \o _get_placed_order_from_response(response)

_get_orders_from_response(response) ==
    LET placed_orders_list == _get_placed_order_from_response(response)
        order_status_list == _get_order_status_from_response(response)
    IN  placed_orders_list \o order_status_list

_get_balance_from_response(response) ==
    LET balance_list == SelectSeq(response.Responses,
                                  LAMBDA r : r["MsgType"] = BALANCE_RESPONSE)
    IN  IF balance_list = <<>> THEN None
        ELSE LET broker == balance_list[1][Broker]
             IN  [ class |-> "Balance",
                   currency |-> get_currency_value(broker[Currency]),
                   currency_locked |-> get_currency_value(broker[CurrencyLocked]),
                   btc |-> get_currency_value(broker["BTC"]),
                   btc_locked |-> get_currency_value(broker["BTC_locked"]) ]

_parse_order_response(response) ==
    LET order_list == _get_orders_from_response(response)
        balance_ == _get_balance_from_response(response)
    IN  order_list \o <<balance_>>

\* The exception _validate_response raises on the response, or "none".
_validate_response(response) ==
    IF "Responses" \notin DOMAIN response THEN Raise("KeyError", None)
    ELSE IF response.Responses = <<>> THEN Raise("IndexError", None)
    ELSE LET response_item == response.Responses[1]
         IN  IF "OrdStatus" \in DOMAIN response_item
                /\ response_item["OrdStatus"] = REJECTED
             THEN Raise("OrderRejectedException", response_item)
             ELSE Return(<<>>)

_place_order(order_side, response) ==
    LET v == _validate_response(response)
    IN  IF v.raised # "none" THEN v ELSE Return(_parse_order_response(response))

buy_bitcoins(response) == _place_order(BUY, response)

sell_bitcoins(response) == _place_order(SELL, response)

\* variant of cancel_order that parses without validating first
cancel_order_unvalidated(response) == Return(_parse_order_response(response))

cancel_order(response) ==
    LET v == _validate_response(response)
    IN  IF v.raised # "none" THEN v ELSE Return(_parse_order_response(response))

_get_orders(orders_filter, response) ==
    LET v == _validate_response(response)
    IN  IF v.raised # "none" THEN v ELSE Return(_parse_order_response(response))

get_pending_orders(response) == _get_orders("has_leaves_qty eq 1", response)

get_executed_orders(response) == _get_orders("has_cum_qty eq 1", response)

----------------------------------------------------------------------------
(* The exchange's replies: the elements a Responses sequence is drawn from *)

MaxResponses == 3

FlatNew ==
    [MsgType |-> PLACE_ORDER_RESPONSE, OrdStatus |-> ORDER_NEW, Symbol |-> "f1",
     Side |-> "1", OrderID |-> 11, Price |-> 4500]

FlatFilled ==
    [MsgType |-> PLACE_ORDER_RESPONSE, OrdStatus |-> FILLED, Symbol |-> "f2",
     Side |-> "2", OrderID |-> 12, Price |-> 4600]

FlatRejected ==
    [MsgType |-> PLACE_ORDER_RESPONSE, OrdStatus |-> REJECTED, Symbol |-> "f3",
     Side |-> "1", OrderID |-> 13, Price |-> 4700]

GridEmpty ==
    [MsgType |-> ORDER_STATUS_RESPONSE,
     Columns |-> <<"OrderID", "OrdStatus", "Symbol">>,
     OrdListGrp |-> <<>>]

GridTwoRows ==
    [MsgType |-> ORDER_STATUS_RESPONSE,
     Columns |-> <<"OrderID", "OrdStatus", "Symbol">>,
     OrdListGrp |-> << <<21, ORDER_NEW, "g1">>, <<22, PARTIALLY_FILLED, "g2">> >>]

GridFilledRow ==
    [MsgType |-> ORDER_STATUS_RESPONSE,
     Columns |-> <<"OrderID", "OrdStatus", "Symbol">>,
     OrdListGrp |-> << <<23, FILLED, "g3">> >>]

\* a grid whose header names two numeric fields
GridIdPrice ==
    [MsgType |-> ORDER_STATUS_RESPONSE,
     Columns |-> <<"OrderID", "Price", "Symbol">>,
     OrdListGrp |-> << <<123, 4500, "g4">> >>]

\* a grid whose row is longer than its header
GridLongRow ==
    [MsgType |-> ORDER_STATUS_RESPONSE,
     Columns |-> <<"OrderID", "OrdStatus", "Symbol">>,
     OrdListGrp |-> << <<24, ORDER_NEW, "g5", 4800>> >>]

BalanceElement ==
    [MsgType |-> BALANCE_RESPONSE]
    @@ (Broker :> [BRL |-> 5 * CurrencyScale, BRL_locked |-> 1 * CurrencyScale,
                   BTC |-> 2 * CurrencyScale, BTC_locked |-> 0])

WireElements ==
    {FlatNew, FlatFilled, FlatRejected, GridEmpty, GridTwoRows, GridFilledRow,
     GridIdPrice, GridLongRow, BalanceElement}

SeqsUpTo(S, n) == UNION {[1..k -> S] : k \in 0..n}

WireResponses == {[Responses |-> rs] : rs \in SeqsUpTo(WireElements, MaxResponses)}

----------------------------------------------------------------------------
(* The order API on its own: a reply arrives, and one call consumes it *)

ApiAwaiting(response) == [op |-> "none", response |-> response, result |-> Return(<<>>)]

ApiCalled(op, response, result) == [op |-> op, response |-> response, result |-> result]

ApiBuyBitcoins ==
    /\ api.op = "none"
    /\ api' = ApiCalled("buy_bitcoins", api.response, buy_bitcoins(api.response))

ApiSellBitcoins ==
    /\ api.op = "none"
    /\ api' = ApiCalled("sell_bitcoins", api.response, sell_bitcoins(api.response))

ApiCancelOrder ==
    /\ api.op = "none"
    /\ api' = ApiCalled("cancel_order", api.response, cancel_order(api.response))

ApiGetPendingOrders ==
    /\ api.op = "none"
    /\ api' = ApiCalled("get_pending_orders", api.response,
                        get_pending_orders(api.response))

ApiGetExecutedOrders ==
    /\ api.op = "none"
    /\ api' = ApiCalled("get_executed_orders", api.response,
                        get_executed_orders(api.response))

----------------------------------------------------------------------------
(* PriceMath (trading_system.systems.trailing_orders.utils) *)

\* get_rounded_decimal_value of the positive quotient num / den: the nearest
\* multiple of the price increment, halves rounded up
get_rounded_decimal_value(num, den) == (2 * num + den) \div (2 * den)

get_buy_price(start_value, reversal) ==
    get_rounded_decimal_value(start_value * (100 + reversal), 100)

get_sell_price(stop_value, reversal) ==
    get_rounded_decimal_value(stop_value * (100 - reversal), 100)

get_stop_loss_price(start_value, stop_loss) ==
    get_rounded_decimal_value(start_value * (100 - stop_loss), 100)

----------------------------------------------------------------------------
(* TrailingOrders: the decision engine *)

TrailingOrderSetup(next_operation, start_value, stop_value, reversal, stop_loss, operational_cost, profit) ==
    [ next_operation |-> next_operation,
      start_value |-> start_value,
      stop_value |-> stop_value,
      reversal |-> reversal,
      stop_loss |-> stop_loss,
      operational_cost |-> operational_cost,
      profit |-> profit ]

\* variants of buy_price reading the wrong threshold, or dropping the reversal
buy_price_from_stop_value(setup_) == get_buy_price(setup_.stop_value, setup_.reversal)

buy_price_without_reversal(setup_) == get_buy_price(setup_.start_value, 0)

buy_price(setup_) == get_buy_price(setup_.start_value, setup_.reversal)

\* variant of sell_price reading the wrong threshold
sell_price_from_start_value(setup_) == get_sell_price(setup_.start_value, setup_.reversal)

sell_price(setup_) == get_sell_price(setup_.stop_value, setup_.reversal)

stop_loss_price(setup_) == get_stop_loss_price(setup_.start_value, setup_.stop_loss)

\* variant of set_next_operation that keeps the side it finds
set_next_operation_keeping_side(setup_, next_operation) == setup_

\* the setup after self.set_next_operation(next_operation)
set_next_operation(setup_, next_operation) ==
    TrailingOrderSetup(next_operation, setup_.start_value, setup_.stop_value,
                       setup_.reversal, setup_.stop_loss, setup_.operational_cost,
                       setup_.profit)

\* variants of Rescaled: one leaves stop_value behind, one mixes up two fields
Rescaled_start_value_only(setup_, last_quote, reference) ==
    TrailingOrderSetup(
        setup_.next_operation,
        get_rounded_decimal_value(setup_.start_value * last_quote, reference),
        setup_.stop_value,
        setup_.reversal, setup_.stop_loss, setup_.operational_cost, setup_.profit)

Rescaled_reversal_for_stop_loss(setup_, last_quote, reference) ==
    TrailingOrderSetup(
        setup_.next_operation,
        get_rounded_decimal_value(setup_.start_value * last_quote, reference),
        get_rounded_decimal_value(setup_.stop_value * last_quote, reference),
        setup_.reversal, setup_.reversal, setup_.operational_cost, setup_.profit)

\* variant of Rescaled that hands each threshold the other's new value
Rescaled_thresholds_swapped(setup_, last_quote, reference) ==
    TrailingOrderSetup(
        setup_.next_operation,
        get_rounded_decimal_value(setup_.stop_value * last_quote, reference),
        get_rounded_decimal_value(setup_.start_value * last_quote, reference),
        setup_.reversal, setup_.stop_loss, setup_.operational_cost, setup_.profit)

Rescaled(setup_, last_quote, reference) ==
    TrailingOrderSetup(
        setup_.next_operation,
        get_rounded_decimal_value(setup_.start_value * last_quote, reference),
        get_rounded_decimal_value(setup_.stop_value * last_quote, reference),
        setup_.reversal, setup_.stop_loss, setup_.operational_cost, setup_.profit)

\* variant of the ratchet whose BUY guard compares the quote with stop_value
update_start_stop_values_buy_guard_on_stop(setup_, last_quote) ==
    IF setup_.next_operation = BUY /\ last_quote >= setup_.stop_value THEN setup_
    ELSE IF setup_.next_operation = SELL /\ last_quote <= setup_.stop_value THEN setup_
    ELSE Rescaled(setup_, last_quote,
                  IF last_quote < setup_.start_value
                  THEN setup_.start_value ELSE setup_.stop_value)

\* variant of the ratchet without the early return for the BUY side
update_start_stop_values_without_buy_guard(setup_, last_quote) ==
    IF setup_.next_operation = SELL /\ last_quote <= setup_.stop_value THEN setup_
    ELSE Rescaled(setup_, last_quote,
                  IF last_quote < setup_.start_value
                  THEN setup_.start_value ELSE setup_.stop_value)

\* variant of the ratchet without the early return for the SELL side
update_start_stop_values_without_sell_guard(setup_, last_quote) ==
    IF setup_.next_operation = BUY /\ last_quote >= setup_.start_value THEN setup_
    ELSE Rescaled(setup_, last_quote,
                  IF last_quote < setup_.start_value
                  THEN setup_.start_value ELSE setup_.stop_value)

\* the setup after self.update_start_stop_values_if_necessary(last_quote)
update_start_stop_values_if_necessary(setup_, last_quote) ==
    IF setup_.next_operation = BUY /\ last_quote >= setup_.start_value THEN setup_
    ELSE IF setup_.next_operation = SELL /\ last_quote <= setup_.stop_value THEN setup_
    ELSE
        LET reference == IF last_quote < setup_.start_value
                         THEN setup_.start_value ELSE setup_.stop_value
        IN  Rescaled(setup_, last_quote, reference)

\* the ratchet gets past its early returns and divides last_quote by a reference
\* of zero
update_start_stop_values_divides_by_zero(setup_, last_quote) ==
    /\ ~(setup_.next_operation = BUY /\ last_quote >= setup_.start_value)
    /\ ~(setup_.next_operation = SELL /\ last_quote <= setup_.stop_value)
    /\ (IF last_quote < setup_.start_value
        THEN setup_.start_value ELSE setup_.stop_value) = 0

EvaluatePendingOrdersCommand == "EvaluatePendingOrdersCommand"
BuyBitcoinsCommand == "BuyBitcoinsCommand"
SellBitcoinsCommand == "SellBitcoinsCommand"

\* variants of _get_command with a slip in the precedence or in the dispatch table
_get_command_ignoring_pending(pending_orders_, setup_) ==
    IF setup_.next_operation = BUY THEN BuyBitcoinsCommand ELSE SellBitcoinsCommand

_get_command_pending_inverted(pending_orders_, setup_) ==
    IF pending_orders_ = <<>> THEN EvaluatePendingOrdersCommand
    ELSE IF setup_.next_operation = BUY THEN BuyBitcoinsCommand
    ELSE SellBitcoinsCommand

_get_command_sides_swapped(pending_orders_, setup_) ==
    IF pending_orders_ # <<>> THEN EvaluatePendingOrdersCommand
    ELSE IF setup_.next_operation = BUY THEN SellBitcoinsCommand
    ELSE BuyBitcoinsCommand

_get_command(pending_orders_, setup_) ==
    IF pending_orders_ # <<>> THEN EvaluatePendingOrdersCommand
    ELSE IF setup_.next_operation = BUY THEN BuyBitcoinsCommand
    ELSE SellBitcoinsCommand

----------------------------------------------------------------------------
(* Commands (trading_system.systems.trailing_orders.commands) *)

\* What execute(last_quote) did: the engine fields it left, the calls it made on
\* the order API and on set_next_operation, and the exception it raised.
Executed(setup_, tracking, buys, sells, flips, raised) ==
    [ setup |-> setup_, is_tracking |-> tracking, buy_calls |-> buys,
      sell_calls |-> sells, set_next_operation_calls |-> flips, raised |-> raised ]

Opposite(side) == IF side = BUY THEN SELL ELSE BUY

\* placed is the outcome of the order API call the command makes when it fires
BuyBitcoinsCommand_execute(setup_, tracking, last_quote, placed) ==
    IF tracking /\ last_quote >= buy_price(setup_) THEN
        IF placed.raised # "none"
        THEN Executed(setup_, tracking, 1, 0, <<>>, placed.raised)
        ELSE Executed(set_next_operation(setup_, SELL), FALSE, 1, 0, <<SELL>>, "none")
    ELSE IF ~tracking /\ last_quote <= setup_.start_value
    THEN Executed(setup_, TRUE, 0, 0, <<>>, "none")
    ELSE Executed(setup_, tracking, 0, 0, <<>>, "none")

SellBitcoinsCommand_execute(setup_, tracking, last_quote, placed) ==
    IF tracking /\ last_quote <= sell_price(setup_) THEN
        IF placed.raised # "none"
        THEN Executed(setup_, tracking, 0, 1, <<>>, placed.raised)
        ELSE Executed(set_next_operation(setup_, BUY), FALSE, 0, 1, <<BUY>>, "none")
    ELSE IF ~tracking /\ last_quote >= setup_.stop_value
    THEN Executed(setup_, TRUE, 0, 0, <<>>, "none")
    ELSE Executed(setup_, tracking, 0, 0, <<>>, "none")

IsFullyFilled(order) == order.class = "PlacedOrder" /\ order.order_status = FILLED

EvaluatePendingOrdersCommand_execute(setup_, tracking, pending_orders_) ==
    IF \E i \in 1..Len(pending_orders_) : IsFullyFilled(pending_orders_[i])
    THEN Executed(set_next_operation(setup_, Opposite(setup_.next_operation)), FALSE,
                  0, 0, <<Opposite(setup_.next_operation)>>, "none")
    ELSE Executed(setup_, tracking, 0, 0, <<>>, "none")

\* command(self).execute(last_quote)
execute(command, setup_, tracking, pending_orders_, last_quote, placed) ==
    IF command = EvaluatePendingOrdersCommand
    THEN EvaluatePendingOrdersCommand_execute(setup_, tracking, pending_orders_)
    ELSE IF command = BuyBitcoinsCommand
    THEN BuyBitcoinsCommand_execute(setup_, tracking, last_quote, placed)
    ELSE SellBitcoinsCommand_execute(setup_, tracking, last_quote, placed)

----------------------------------------------------------------------------
(* The engine's collaborators *)

BlinkTradeClient == "BlinkTradeClient"
OtherClient == "OtherClient"

PlacedOrderNew == _make_placed_order_from_dict(FlatNew)
PlacedOrderFilled == _make_placed_order_from_dict(FlatFilled)

AccountBalance ==
    [class |-> "Balance", currency |-> 1000, currency_locked |-> 0,
     btc |-> 1, btc_locked |-> 0]

Ticker(last_value) == [class |-> "Ticker", last_value |-> last_value]

Quotes == {90, 100, 105, 110, 180, 200, 220}

\* what the exchange may answer to the engine's get_pending_orders request
PendingReplies(client) ==
    IF client = BlinkTradeClient
    THEN { [Responses |-> <<GridEmpty>>],
           [Responses |-> <<GridEmpty, BalanceElement>>],
           [Responses |-> <<GridTwoRows>>],
           [Responses |-> <<GridFilledRow, FlatNew, BalanceElement>>],
           [Responses |-> <<FlatRejected>>],
           [Responses |-> <<>>] }
    ELSE { Return(<<>>), Return(<<PlacedOrderNew>>), Return(<<PlacedOrderFilled>>),
           Raise("TransportError", None) }

\* what the exchange may answer to an order the engine places
PlaceReplies(client) ==
    IF client = BlinkTradeClient
    THEN { [Responses |-> <<FlatNew>>], [Responses |-> <<FlatRejected>>] }
    ELSE { Return(<<PlacedOrderNew>>), Raise("OrderRejectedException", None) }

BalanceResults == { Return(AccountBalance), Raise("TransportError", None) }

TickerResults == { Return(Ticker(q)) : q \in Quotes } \cup { Raise("TransportError", None) }

\* self.client.orders.get_pending_orders(page=0, page_size=5)
_get_pending_orders(client, reply) ==
    IF client = BlinkTradeClient THEN get_pending_orders(reply) ELSE reply

\* self.client.orders.buy_bitcoins_with_limited_order / sell_bitcoins_with_limited_order
place_limited_order(client, side, reply) ==
    IF client = BlinkTradeClient
    THEN IF side = BUY THEN buy_bitcoins(reply) ELSE sell_bitcoins(reply)
    ELSE reply

----------------------------------------------------------------------------
(* TrailingOrders.run *)

Observed(reply, log, last_quote, command, ex, raised) ==
    [ pending_reply |-> reply, log |-> log, last_quote |-> last_quote,
      command |-> command, buy_calls |-> ex.buy_calls, sell_calls |-> ex.sell_calls,
      set_next_operation_calls |-> ex.set_next_operation_calls, raised |-> raised ]

NothingExecuted == [buy_calls |-> 0, sell_calls |-> 0, set_next_operation_calls |-> <<>>]

\* The engine after one run(): self is the engine before it, the other arguments
\* are what the three reads and the order placement (if any) come back with.
TrailingOrders_run(self, pending_reply, balance_result, ticker_result, place_reply) ==
    LET fetched == _get_pending_orders(self.client_type, pending_reply)
    IN
    IF fetched.raised # "none" THEN
        [ self EXCEPT !.cycle = Observed(pending_reply, <<"get_pending_orders">>, 0,
                                         "none", NothingExecuted, fetched.raised) ]
    ELSE IF balance_result.raised # "none" THEN
        [ self EXCEPT !.pending_orders = fetched.value,
                      !.cycle = Observed(pending_reply,
                                         <<"get_pending_orders", "get_balance">>, 0,
                                         "none", NothingExecuted, balance_result.raised) ]
    ELSE IF ticker_result.raised # "none" THEN
        [ self EXCEPT !.pending_orders = fetched.value,
                      !.balance = balance_result.value,
                      !.cycle = Observed(pending_reply,
                                         <<"get_pending_orders", "get_balance", "get_ticker">>,
                                         0, "none", NothingExecuted, ticker_result.raised) ]
    ELSE
        LET last_value == ticker_result.value.last_value
            command == _get_command(fetched.value, self.setup)
            side == self.setup.next_operation
            ex == execute(command, self.setup, self.is_tracking, fetched.value, last_value,
                          place_limited_order(self.client_type, side, place_reply))
        IN
        IF ex.raised # "none" THEN
            [ self EXCEPT !.pending_orders = fetched.value,
                          !.balance = balance_result.value,
                          !.setup = ex.setup,
                          !.is_tracking = ex.is_tracking,
                          !.cycle = Observed(pending_reply,
                                             <<"get_pending_orders", "get_balance",
                                               "get_ticker", "_get_command", "execute">>,
                                             last_value, command, ex, ex.raised) ]
        ELSE IF update_start_stop_values_divides_by_zero(ex.setup, last_value) THEN
            [ self EXCEPT !.pending_orders = fetched.value,
                          !.balance = balance_result.value,
                          !.setup = ex.setup,
                          !.is_tracking = ex.is_tracking,
                          !.cycle = Observed(pending_reply,
                                             <<"get_pending_orders", "get_balance",
                                               "get_ticker", "_get_command", "execute",
                                               "update_start_stop_values_if_necessary">>,
                                             last_value, command, ex, "ZeroDivisionError") ]
        ELSE
            [ self EXCEPT !.pending_orders = fetched.value,
                          !.balance = balance_result.value,
                          !.setup = update_start_stop_values_if_necessary(ex.setup, last_value),
                          !.is_tracking = ex.is_tracking,
                          !.cycle = Observed(pending_reply,
                                             <<"get_pending_orders", "get_balance",
                                               "get_ticker", "_get_command", "execute",
                                               "update_start_stop_values_if_necessary">>,
                                             last_value, command, ex, "none") ]

\* variant of run that ratchets as soon as the quote is known, before the reads
\* that may still fail
run_ratchet_before_reads(self, pending_reply, balance_result, ticker_result, place_reply) ==
    TrailingOrders_run(
        IF ticker_result.raised # "none" THEN self
        ELSE [self EXCEPT !.setup = update_start_stop_values_if_necessary(
                                        self.setup, ticker_result.value.last_value)],
        pending_reply, balance_result, ticker_result, place_reply)

\* variant of run whose ratchet is evaluated against the side the cycle began with
run_ratchet_on_side_before_command(self, pending_reply, balance_result, ticker_result, place_reply) ==
    LET after == TrailingOrders_run(self, pending_reply, balance_result, ticker_result,
                                    place_reply)
    IN  IF after.cycle.raised = "none" /\ after.cycle.set_next_operation_calls # <<>>
        THEN [ after EXCEPT !.setup =
                 set_next_operation(
                     update_start_stop_values_if_necessary(self.setup,
                                                           after.cycle.last_quote),
                     after.setup.next_operation) ]
        ELSE after

run(self, pending_reply, balance_result, ticker_result, place_reply) ==
    TrailingOrders_run(self, pending_reply, balance_result, ticker_result, place_reply)

----------------------------------------------------------------------------
(* Specifications *)

InitialSetups ==
    { TrailingOrderSetup(side, 100, 200, 10, 20, 1, 2) : side \in {BUY, SELL} }

NoCycle == Observed(None, <<>>, 0, "none", NothingExecuted, "none")

\* the history of placed orders of an engine just built on the side `initial`
NoOrderPlaced(initial) == [initial |-> initial, last |-> "none", outstanding |-> FALSE]

\* the history where no history is kept
NotRecorded == NoOrderPlaced("none")

Init ==
    /\ client_type \in {BlinkTradeClient, OtherClient}
    /\ setup \in InitialSetups
    /\ is_tracking = FALSE
    /\ balance = NotImplemented
    /\ pending_orders = <<>>
    /\ cycle = NoCycle
    /\ api = ApiAwaiting([Responses |-> <<>>])
    /\ orders_placed = NotRecorded

Self ==
    [ client_type |-> client_type, setup |-> setup, is_tracking |-> is_tracking,
      balance |-> balance, pending_orders |-> pending_orders, cycle |-> cycle ]

\* one cycle of the engine, given what the exchange answers during it
Cycle(pending_reply, balance_result, ticker_result, place_reply) ==
    LET after == run(Self, pending_reply, balance_result, ticker_result, place_reply)
    IN  /\ setup' = after.setup
        /\ is_tracking' = after.is_tracking
        /\ balance' = after.balance
        /\ pending_orders' = after.pending_orders
        /\ cycle' = after.cycle
        /\ UNCHANGED <<client_type, api>>

Run ==
    \E pending_reply \in PendingReplies(client_type),
       balance_result \in BalanceResults,
       ticker_result \in TickerResults,
       place_reply \in PlaceReplies(client_type) :
        /\ Cycle(pending_reply, balance_result, ticker_result, place_reply)
        /\ UNCHANGED orders_placed

Next == Run

Spec == Init /\ [][Next]_vars

EngineVars == <<client_type, setup, is_tracking, balance, pending_orders, cycle, orders_placed>>

NextApi ==
    \/ ApiBuyBitcoins /\ UNCHANGED EngineVars
    \/ ApiSellBitcoins /\ UNCHANGED EngineVars
    \/ ApiCancelOrder /\ UNCHANGED EngineVars
    \/ ApiGetPendingOrders /\ UNCHANGED EngineVars
    \/ ApiGetExecutedOrders /\ UNCHANGED EngineVars

InitApi ==
    /\ client_type = BlinkTradeClient
    /\ setup = TrailingOrderSetup(BUY, 100, 200, 10, 20, 1, 2)
    /\ is_tracking = FALSE
    /\ balance = NotImplemented
    /\ pending_orders = <<>>
    /\ cycle = NoCycle
    /\ api \in {ApiAwaiting(response) : response \in WireResponses}
    /\ orders_placed = NotRecorded

SpecApi == InitApi /\ [][NextApi]_vars

----------------------------------------------------------------------------
(* The ratchet on its own: any setup and any quote, then one ratchet call *)

MaxPrice == 6

RatchetSetups ==
    { TrailingOrderSetup(side, start_value, stop_value, 10, 20, 1, 2) :
        side \in {BUY, SELL}, start_value \in 1..MaxPrice, stop_value \in 1..MaxPrice }

RatchetLog == <<"update_start_stop_values_if_necessary">>

\* the quotes the ratchet is called with: one of them lies above every threshold
RatchetQuotes == 1..(MaxPrice + 1)

InitRatchet ==
    /\ client_type = OtherClient
    /\ setup \in RatchetSetups
    /\ is_tracking \in BOOLEAN
    /\ balance = NotImplemented
    /\ pending_orders \in {<<>>, <<PlacedOrderNew>>}
    /\ cycle \in { Observed(None, <<>>, q, "none", NothingExecuted, "none") : q \in RatchetQuotes }
    /\ api = ApiAwaiting([Responses |-> <<>>])
    /\ orders_placed = NotRecorded

Ratchet ==
    /\ cycle.log = <<>>
    /\ setup' = update_start_stop_values_if_necessary(setup, cycle.last_quote)
    /\ cycle' = [cycle EXCEPT !.log = RatchetLog]
    /\ UNCHANGED <<client_type, is_tracking, balance, pending_orders, api, orders_placed>>

NextRatchet == Ratchet

SpecRatchet == InitRatchet /\ [][NextRatchet]_vars

----------------------------------------------------------------------------
(* The engine on narrow bands: thresholds a few price increments apart, so that
   the rounding of the ratchet shows *)

BandSetups == {s \in RatchetSetups : s.start_value < s.stop_value}

BandTickerResults ==
    { Return(Ticker(q)) : q \in RatchetQuotes } \cup { Raise("TransportError", None) }

InitBand ==
    /\ client_type = OtherClient
    /\ setup \in BandSetups
    /\ is_tracking = FALSE
    /\ balance = NotImplemented
    /\ pending_orders = <<>>
    /\ cycle = NoCycle
    /\ api = ApiAwaiting([Responses |-> <<>>])
    /\ orders_placed = NotRecorded

RunBand ==
    \E pending_reply \in PendingReplies(client_type),
       balance_result \in BalanceResults,
       ticker_result \in BandTickerResults,
       place_reply \in PlaceReplies(client_type) :
        /\ Cycle(pending_reply, balance_result, ticker_result, place_reply)
        /\ UNCHANGED orders_placed

NextBand == RunBand

SpecBand == InitBand /\ [][NextBand]_vars

\* the same engine started on any band, ordered or not
InitAnyBand ==
    /\ client_type = OtherClient
    /\ setup \in RatchetSetups
    /\ is_tracking = FALSE
    /\ balance = NotImplemented
    /\ pending_orders = <<>>
    /\ cycle = NoCycle
    /\ api = ApiAwaiting([Responses |-> <<>>])
    /\ orders_placed = NotRecorded

SpecAnyBand == InitAnyBand /\ [][NextBand]_vars

----------------------------------------------------------------------------
(* The engine with the orders it places recorded *)

\* the history after a cycle: an order counts as placed when the order call the
\* command made returned without raising, and stays outstanding until a
\* pending-orders list holding a fully filled order is fetched
Recorded(history, observed, fetched) ==
    IF observed.raised = "none" /\ observed.buy_calls = 1
    THEN [history EXCEPT !.last = BUY, !.outstanding = TRUE]
    ELSE IF observed.raised = "none" /\ observed.sell_calls = 1
    THEN [history EXCEPT !.last = SELL, !.outstanding = TRUE]
    ELSE IF Len(observed.log) >= 2 /\ \E i \in 1..Len(fetched) : IsFullyFilled(fetched[i])
    THEN [history EXCEPT !.outstanding = FALSE]
    ELSE history

\* the reply to get_pending_orders reports at least one order
ReportsOrders(client, reply) ==
    IF client = BlinkTradeClient
    THEN \E i \in 1..Len(reply.Responses) :
            \/ reply.Responses[i]["MsgType"] = PLACE_ORDER_RESPONSE
            \/ /\ reply.Responses[i]["MsgType"] = ORDER_STATUS_RESPONSE
               /\ reply.Responses[i]["OrdListGrp"] # <<>>
    ELSE reply.raised = "none" /\ reply.value # <<>>

InitOrders ==
    /\ client_type \in {BlinkTradeClient, OtherClient}
    /\ setup \in InitialSetups
    /\ is_tracking = FALSE
    /\ balance = NotImplemented
    /\ pending_orders = <<>>
    /\ cycle = NoCycle
    /\ api = ApiAwaiting([Responses |-> <<>>])
    /\ orders_placed = NoOrderPlaced(setup.next_operation)

\* a cycle of an engine that is alone on its account: the exchange reports
\* pending orders only while an order the engine placed is outstanding
RunOrders ==
    \E pending_reply \in PendingReplies(client_type),
       balance_result \in BalanceResults,
       ticker_result \in TickerResults,
       place_reply \in PlaceReplies(client_type) :
        /\ ReportsOrders(client_type, pending_reply) => orders_placed.outstanding
        /\ Cycle(pending_reply, balance_result, ticker_result, place_reply)
        /\ orders_placed' = Recorded(orders_placed, cycle', pending_orders')

NextOrders == RunOrders

SpecOrders == InitOrders /\ [][NextOrders]_vars

----------------------------------------------------------------------------
(* Properties of the engine's command selection *)

\* the cycle got past the pending-orders fetch, so pending_orders is what it fetched
FetchedPending == Len(cycle.log) >= 2

\* the cycle selected a command
Selected == cycle.command # "none"

\* run() returned without raising
Completed == cycle.log # <<>> /\ cycle.raised = "none"

\* C1: whenever the pending-orders list fetched by run() is non-empty, the command
\* _get_command selects is EvaluatePendingOrders, whatever next_operation is.
C1_PendingPreempts ==
    (Selected /\ pending_orders # <<>>) => cycle.command = EvaluatePendingOrdersCommand

C1_Witness ==
    /\ cycle.command = EvaluatePendingOrdersCommand
    /\ pending_orders = <<PlacedOrderNew>>
    /\ setup.next_operation = SELL

\* a get_pending_orders reply that holds no order record: no PLACE_ORDER_RESPONSE
\* element and no grid row
NoOrderRecords(reply) ==
    /\ "Responses" \in DOMAIN reply
    /\ \A i \in 1..Len(reply.Responses) :
        LET r == reply.Responses[i]
        IN  /\ r["MsgType"] # PLACE_ORDER_RESPONSE
            /\ r["MsgType"] = ORDER_STATUS_RESPONSE => r["OrdListGrp"] = <<>>

\* C2: in a cycle whose get_pending_orders reply holds no order record, with or
\* without a balance section, run() stores an empty pending_orders and selects Buy
\* when next_operation is BUY and Sell when it is SELL.
C2_EmptyReplyDispatches ==
    [][ ( /\ client_type' = BlinkTradeClient
          /\ cycle'.command # "none"
          /\ NoOrderRecords(cycle'.pending_reply) )
        => /\ pending_orders' = <<>>
           /\ cycle'.command = IF setup.next_operation = BUY
                               THEN BuyBitcoinsCommand ELSE SellBitcoinsCommand ]_vars

\* C3: no buy or sell order is placed in a cycle whose fetched pending-orders list
\* is non-empty.
C3_NoPlacementWhilePending ==
    (FetchedPending /\ pending_orders # <<>>)
        => cycle.buy_calls = 0 /\ cycle.sell_calls = 0

\* a cycle with an order pending, in which the quote had reached the buy price
\* while tracking: without the pending order it would have bought
C3_Witness ==
    /\ Completed /\ pending_orders # <<>>
    /\ cycle.command = EvaluatePendingOrdersCommand
    /\ setup.next_operation = BUY /\ is_tracking
    /\ cycle.last_quote >= get_buy_price(setup.start_value, setup.reversal)
    /\ cycle.buy_calls = 0

----------------------------------------------------------------------------
(* Properties of the BUY side *)

\* the step is a completed run() whose fetched pending-orders list is empty, taken
\* with next_operation = BUY
BuyCycle ==
    /\ cycle'.log # <<>> /\ cycle'.raised = "none"
    /\ pending_orders' = <<>>
    /\ setup.next_operation = BUY

\* C4: from is_tracking = False, such a cycle leaves is_tracking = True exactly
\* when last_quote <= the start_value held before it; it places no order and does
\* not flip next_operation.
C4_StartsTrackingIffInZone ==
    [][ (BuyCycle /\ ~is_tracking)
        => /\ is_tracking' <=> (cycle'.last_quote <= setup.start_value)
           /\ cycle'.buy_calls = 0 /\ cycle'.sell_calls = 0
           /\ cycle'.set_next_operation_calls = <<>>
           /\ setup'.next_operation = BUY ]_vars

C4_Witness ==
    /\ Completed /\ pending_orders = <<>>
    /\ cycle.command = BuyBitcoinsCommand
    /\ is_tracking /\ cycle.last_quote = 100 /\ setup.start_value = 100
    /\ cycle.buy_calls = 0 /\ setup.next_operation = BUY

\* C5: from is_tracking = True, such a cycle with last_quote >= buy_price places
\* exactly one buy order and no sell order, calls set_next_operation(SELL) and
\* leaves is_tracking = False.
C5_FiresAtBuyPrice ==
    [][ ( /\ BuyCycle /\ is_tracking
          /\ cycle'.last_quote >= get_buy_price(setup.start_value, setup.reversal) )
        => /\ cycle'.buy_calls = 1 /\ cycle'.sell_calls = 0
           /\ cycle'.set_next_operation_calls = <<SELL>>
           /\ setup'.next_operation = SELL
           /\ is_tracking' = FALSE ]_vars

C5_Witness ==
    /\ Completed /\ pending_orders = <<>>
    /\ cycle.command = BuyBitcoinsCommand
    /\ cycle.buy_calls = 1 /\ cycle.last_quote = 110
    /\ setup.start_value = 100 /\ setup.next_operation = SELL /\ ~is_tracking

\* C6: from is_tracking = True, such a cycle with last_quote < buy_price places no
\* order, does not call set_next_operation and leaves is_tracking = True.
C6_KeepsTrackingBelowBuyPrice ==
    [][ ( /\ BuyCycle /\ is_tracking
          /\ cycle'.last_quote < get_buy_price(setup.start_value, setup.reversal) )
        => /\ cycle'.buy_calls = 0 /\ cycle'.sell_calls = 0
           /\ cycle'.set_next_operation_calls = <<>>
           /\ is_tracking' = TRUE ]_vars

\* tracking kept at a quote above start_value and below buy_price
C6_Witness ==
    /\ Completed /\ pending_orders = <<>>
    /\ cycle.command = BuyBitcoinsCommand
    /\ is_tracking /\ cycle.last_quote = 105 /\ setup.start_value = 100
    /\ cycle.buy_calls = 0 /\ setup.next_operation = BUY

----------------------------------------------------------------------------
(* Failure of a cycle *)

\* C7: a run() that raises (in the pending-orders, balance or quote fetch, or by a
\* rejected order placement) leaves setup and is_tracking as they were before it.
C7_FailedCycleKeepsState ==
    [][ cycle'.raised # "none" => setup' = setup /\ is_tracking' = is_tracking ]_vars

\* an order placement rejected in a cycle that was about to buy
C7_Witness ==
    /\ cycle.raised = "OrderRejectedException"
    /\ cycle.command = BuyBitcoinsCommand /\ cycle.buy_calls = 1
    /\ is_tracking /\ setup.next_operation = BUY

----------------------------------------------------------------------------
(* The ratchet *)

\* C8: the ratchet leaves the setup unchanged when next_operation is BUY and
\* last_quote >= start_value (equality included), and when next_operation is SELL
\* and last_quote <= stop_value.
C8_RatchetNoOp ==
    [][ ( /\ cycle'.log = RatchetLog
          /\ \/ setup.next_operation = BUY /\ cycle.last_quote >= setup.start_value
             \/ setup.next_operation = SELL /\ cycle.last_quote <= setup.stop_value )
        => setup' = setup ]_vars

\* the ratchet ran on a BUY setup with the quote exactly at start_value
C8_Witness ==
    /\ cycle.log = RatchetLog
    /\ setup.next_operation = BUY
    /\ cycle.last_quote = setup.start_value
    /\ setup.start_value < setup.stop_value

----------------------------------------------------------------------------
(* Response normalisation *)

ApiOps == {"buy_bitcoins", "sell_bitcoins", "cancel_order", "get_pending_orders",
           "get_executed_orders"}

FirstIsRejected(response) ==
    /\ response.Responses # <<>>
    /\ "OrdStatus" \in DOMAIN response.Responses[1]
    /\ response.Responses[1]["OrdStatus"] = REJECTED

\* C9: for place-order, cancel-order and get-orders calls alike, a reply whose
\* first element has status REJECTED makes the call raise OrderRejectedException
\* carrying that element, and nothing parsed from the reply is returned.
C9_RejectedShortCircuits ==
    (api.op \in ApiOps /\ FirstIsRejected(api.response))
        => /\ api.result.raised = "OrderRejectedException"
           /\ api.result.item = api.response.Responses[1]
           /\ api.result.value = <<>>

C9_Witness ==
    /\ api.op = "cancel_order"
    /\ api.response.Responses = <<FlatRejected, GridTwoRows, BalanceElement>>
    /\ api.result.raised = "OrderRejectedException"

FlatSymbols == {"f1", "f2", "f3"}
GridSymbols == {"g1", "g2", "g3", "g4", "g5"}

\* the Symbol of each flat element of the reply, in the reply's order
SourceFlatSymbols(response) ==
    LET flat == SelectSeq(response.Responses,
                          LAMBDA r : r["MsgType"] = PLACE_ORDER_RESPONSE)
    IN  [i \in 1..Len(flat) |-> flat[i]["Symbol"]]

\* the Symbol of each grid row of the reply, grid by grid and row by row
RECURSIVE SourceGridSymbols(_)
SourceGridSymbols(elements) ==
    IF elements = <<>> THEN <<>>
    ELSE LET r == Head(elements)
             col == CHOOSE i \in 1..Len(r["Columns"]) : r["Columns"][i] = "Symbol"
         IN  IF r["MsgType"] = ORDER_STATUS_RESPONSE
             THEN [i \in 1..Len(r["OrdListGrp"]) |-> r["OrdListGrp"][i][col]]
                  \o SourceGridSymbols(Tail(elements))
             ELSE SourceGridSymbols(Tail(elements))

\* the order records a call returned: its list without the trailing balance slot
ReturnedOrders == SubSeq(api.result.value, 1, Len(api.result.value) - 1)

ReturnedSymbols == [i \in 1..Len(ReturnedOrders) |-> ReturnedOrders[i].symbol]

\* C10: in the returned order list every record built from a flat element comes
\* before every record built from a grid row, and each group keeps the order of
\* its source elements and rows, however the two kinds interleave in the reply.
C10_FlatBeforeGrid ==
    (api.op \in ApiOps /\ api.result.raised = "none")
        => /\ \A i, j \in 1..Len(ReturnedSymbols) :
                (i < j) => ~(ReturnedSymbols[i] \in GridSymbols
                             /\ ReturnedSymbols[j] \in FlatSymbols)
           /\ SelectSeq(ReturnedSymbols, LAMBDA x : x \in FlatSymbols)
                = SourceFlatSymbols(api.response)
           /\ SelectSeq(ReturnedSymbols, LAMBDA x : x \in GridSymbols)
                = SourceGridSymbols(api.response.Responses)

\* a reply with a flat element between two grids
C10_Witness ==
    /\ api.op = "get_pending_orders"
    /\ api.response.Responses = <<GridTwoRows, FlatNew, GridFilledRow>>
    /\ api.result.raised = "none"
    /\ ReturnedSymbols = <<"f1", "g1", "g2", "g3">>

\* the wire key and the record field of every numeric field of an order
NumericFields ==
    { <<"OrderID", "order_id">>, <<"ExecID", "exec_id">>, <<"CumQty", "cum_quantity">>,
      <<"Price", "price">>, <<"OrderQty", "order_quantity">>,
      <<"LastShares", "last_shares">>, <<"LastPx", "last_px">>,
      <<"CxlQty", "cxl_quantity">>, <<"Volume", "volume">>,
      <<"LeavesQty", "leaves_quantity">>, <<"ClOrdID", "client_order_id">>,
      <<"AvgPx", "average_px">> }

\* every grid row of the reply with its header, grid by grid and row by row
RECURSIVE SourceGridRows(_)
SourceGridRows(elements) ==
    IF elements = <<>> THEN <<>>
    ELSE LET r == Head(elements)
         IN  IF r["MsgType"] = ORDER_STATUS_RESPONSE
             THEN [i \in 1..Len(r["OrdListGrp"]) |->
                      [columns |-> r["Columns"], row |-> r["OrdListGrp"][i]]]
                  \o SourceGridRows(Tail(elements))
             ELSE SourceGridRows(Tail(elements))

\* the positions at which a row carries a value under the header `key`
ColumnsNamed(source, key) ==
    {i \in 1..Min(Len(source.columns), Len(source.row)) : source.columns[i] = key}

\* the records a call built from grid rows: what follows the flat elements' records
ReturnedGridOrders ==
    SubSeq(ReturnedOrders, Len(SourceFlatSymbols(api.response)) + 1, Len(ReturnedOrders))

\* C11: a record built from a grid row carries, for every numeric field the
\* header names with a non-zero value in the row, exactly that value; a numeric
\* field the header does not name is absent (None) in the record.
C11_NumericFieldsRoundTrip ==
    (api.op \in ApiOps /\ api.result.raised = "none")
        => LET rows == SourceGridRows(api.response.Responses)
           IN  /\ Len(ReturnedGridOrders) = Len(rows)
               /\ \A k \in 1..Len(rows) : \A f \in NumericFields :
                    LET at == ColumnsNamed(rows[k], f[1])
                    IN  /\ (at = {}) => ReturnedGridOrders[k][f[2]] = None
                        /\ \A i \in at :
                             (rows[k].row[i] # 0)
                                => ReturnedGridOrders[k][f[2]] = Long(rows[k].row[i])

\* the part of C11 the code does satisfy is reached: a grid row was normalised
C11_GridRowNormalised ==
    /\ api.op = "get_pending_orders"
    /\ api.response.Responses = <<GridIdPrice>>
    /\ api.result.raised = "none"
    /\ ReturnedGridOrders[1].order_id = None
    /\ ReturnedGridOrders[1].price = None

\* some grid of the reply has a row whose length is not its header's length
HasMalformedGrid(response) ==
    LET rows == SourceGridRows(response.Responses)
    IN  \E k \in 1..Len(rows) : Len(rows[k].row) # Len(rows[k].columns)

\* C12: a reply holding a grid with a row whose length differs from the length
\* of Columns makes the call fail with a malformed-grid error instead of
\* returning an order list.
C12_MalformedGridFails ==
    (api.op \in ApiOps /\ HasMalformedGrid(api.response)
                       /\ ~FirstIsRejected(api.response))
        => api.result.raised = "MalformedGridError"

\* what the code returns for the long row: a record of its first three values
C12_LongRowTruncated ==
    /\ api.op = "get_executed_orders"
    /\ api.response.Responses = <<GridLongRow>>
    /\ api.result.raised = "none"
    /\ ReturnedSymbols = <<"g5">>

----------------------------------------------------------------------------
(* The SELL side *)

\* the step is a completed run() whose fetched pending-orders list is empty, taken
\* with next_operation = SELL
SellCycle ==
    /\ cycle'.log # <<>> /\ cycle'.raised = "none"
    /\ pending_orders' = <<>>
    /\ setup.next_operation = SELL

\* C13: with no pending orders and next_operation = SELL, a cycle that starts not
\* tracking with last_quote >= stop_value leaves is_tracking = True and places no
\* order; a cycle that starts tracking with last_quote <= sell_price, where
\* sell_price = stop_value * (1 - reversal / 100), places exactly one sell order
\* and no buy order, flips next_operation to BUY and leaves is_tracking = False.
C13_SellSideMirrorsBuy ==
    [][ /\ ( /\ SellCycle /\ ~is_tracking
             /\ cycle'.last_quote >= setup.stop_value )
           => /\ is_tracking' = TRUE
              /\ cycle'.buy_calls = 0 /\ cycle'.sell_calls = 0
              /\ setup'.next_operation = SELL
        /\ ( /\ SellCycle /\ is_tracking
             /\ cycle'.last_quote <= get_sell_price(setup.stop_value, setup.reversal) )
           => /\ cycle'.sell_calls = 1 /\ cycle'.buy_calls = 0
              /\ cycle'.set_next_operation_calls = <<BUY>>
              /\ setup'.next_operation = BUY
              /\ is_tracking' = FALSE ]_vars

\* a sell fired at the quote 180 = 200 * (1 - 10 / 100)
C13_Witness ==
    /\ Completed /\ pending_orders = <<>>
    /\ cycle.command = SellBitcoinsCommand
    /\ cycle.sell_calls = 1 /\ cycle.buy_calls = 0 /\ cycle.last_quote = 180
    /\ setup.stop_value = 200 /\ setup.next_operation = BUY /\ ~is_tracking

----------------------------------------------------------------------------
(* Cycles that find pending orders *)

\* the step is a completed run() whose fetched pending-orders list is not empty
\* and holds no fully filled order
OpenOrdersCycle ==
    /\ cycle'.log # <<>> /\ cycle'.raised = "none"
    /\ pending_orders' # <<>>
    /\ \A i \in 1..Len(pending_orders') : ~IsFullyFilled(pending_orders'[i])

\* the quote is where the ratchet does nothing for the side
InNoRatchetZone(setup_, last_quote) ==
    \/ setup_.next_operation = BUY /\ last_quote >= setup_.start_value
    \/ setup_.next_operation = SELL /\ last_quote <= setup_.stop_value

\* C14 as stated: a cycle that finds only open or partially filled pending orders
\* leaves the setup (start_value and stop_value included) and is_tracking as
\* they were before it, whatever the quote.
C14_OpenOrdersKeepState ==
    [][ OpenOrdersCycle => setup' = setup /\ is_tracking' = is_tracking ]_vars

\* C14 amended: such a cycle leaves is_tracking and every field of the setup
\* other than start_value and stop_value as they were, and leaves start_value
\* and stop_value as they were too when the quote is in the no-ratchet zone;
\* outside that zone the ratchet, which runs in every cycle, moves the band.
C14_OpenOrdersKeepStateButRatchet ==
    [][ OpenOrdersCycle
        => /\ is_tracking' = is_tracking
           /\ cycle'.buy_calls = 0 /\ cycle'.sell_calls = 0
           /\ setup'.next_operation = setup.next_operation
           /\ setup'.reversal = setup.reversal
           /\ setup'.stop_loss = setup.stop_loss
           /\ setup'.operational_cost = setup.operational_cost
           /\ setup'.profit = setup.profit
           /\ InNoRatchetZone(setup, cycle'.last_quote) => setup' = setup
           /\ ~InNoRatchetZone(setup, cycle'.last_quote) => setup' # setup ]_vars

\* an open order was pending while the quote fell below start_value: the band
\* moved down to the quote
C14_Witness ==
    /\ Completed /\ cycle.command = EvaluatePendingOrdersCommand
    /\ pending_orders = <<PlacedOrderNew>>
    /\ setup.next_operation = BUY /\ cycle.last_quote = 90
    /\ setup.start_value = 90 /\ setup.stop_value = 180

\* the step is a completed run() that executed EvaluatePendingOrders on a list
\* holding a fully filled order
FilledOrderCycle ==
    /\ cycle'.log # <<>> /\ cycle'.raised = "none"
    /\ cycle'.command = EvaluatePendingOrdersCommand
    /\ \E i \in 1..Len(pending_orders') : IsFullyFilled(pending_orders'[i])

\* C15: a cycle in which EvaluatePendingOrders runs and a pending order is fully
\* filled leaves next_operation the opposite of what it was before the cycle
\* and is_tracking = False, and places no order.
C15_FilledOrderFlipsSide ==
    [][ FilledOrderCycle
        => /\ setup'.next_operation # setup.next_operation
           /\ setup'.next_operation \in {BUY, SELL}
           /\ cycle'.set_next_operation_calls = <<setup'.next_operation>>
           /\ is_tracking' = FALSE
           /\ cycle'.buy_calls = 0 /\ cycle'.sell_calls = 0 ]_vars

\* a filled order flipped the side to SELL
C15_Witness ==
    /\ Completed /\ cycle.command = EvaluatePendingOrdersCommand
    /\ pending_orders = <<PlacedOrderFilled>>
    /\ cycle.set_next_operation_calls = <<SELL>>
    /\ setup.next_operation = SELL /\ ~is_tracking

----------------------------------------------------------------------------
(* The ratchet's rescaling *)

\* the step is a call of the ratchet
RatchetCall == cycle'.log = RatchetLog

\* value is num / den rounded to the nearest price increment, whichever way a
\* tie is broken
IsRounded(value, num, den) ==
    /\ 2 * (value * den - num) <= den
    /\ 2 * (num - value * den) <= den

\* C16 as stated: for BUY with last_quote < start_value the new start_value is
\* last_quote and the new stop_value is stop_value * last_quote / start_value;
\* for SELL with last_quote > stop_value the new stop_value is last_quote and the
\* new start_value is start_value * last_quote / stop_value (up to rounding).
C16_RescaledByPassedThreshold ==
    [][ RatchetCall
        => /\ (setup.next_operation = BUY /\ cycle.last_quote < setup.start_value)
              => /\ setup'.start_value = cycle.last_quote
                 /\ IsRounded(setup'.stop_value,
                              setup.stop_value * cycle.last_quote, setup.start_value)
           /\ (setup.next_operation = SELL /\ cycle.last_quote > setup.stop_value)
              => /\ setup'.stop_value = cycle.last_quote
                 /\ IsRounded(setup'.start_value,
                              setup.start_value * cycle.last_quote, setup.stop_value)
      ]_vars

\* C16 amended: the reference is start_value whenever last_quote < start_value
\* and stop_value otherwise. So the BUY half holds as stated; the SELL half holds
\* when last_quote >= start_value, which is every SELL rescale of a band with
\* start_value <= stop_value; for SELL on an inverted band with
\* stop_value < last_quote < start_value the reference is start_value.
C16_RescaledByReference ==
    [][ RatchetCall
        => /\ (setup.next_operation = BUY /\ cycle.last_quote < setup.start_value)
              => /\ setup'.start_value = cycle.last_quote
                 /\ IsRounded(setup'.stop_value,
                              setup.stop_value * cycle.last_quote, setup.start_value)
           /\ ( /\ setup.next_operation = SELL
                /\ cycle.last_quote > setup.stop_value
                /\ cycle.last_quote >= setup.start_value )
              => /\ setup'.stop_value = cycle.last_quote
                 /\ IsRounded(setup'.start_value,
                              setup.start_value * cycle.last_quote, setup.stop_value)
           /\ ( /\ setup.next_operation = SELL
                /\ cycle.last_quote > setup.stop_value
                /\ cycle.last_quote < setup.start_value )
              => /\ setup'.start_value = cycle.last_quote
                 /\ IsRounded(setup'.stop_value,
                              setup.stop_value * cycle.last_quote, setup.start_value)
      ]_vars

\* a SELL band was rescaled up to a quote above every initial threshold
C16_Witness ==
    /\ cycle.log = RatchetLog
    /\ setup.next_operation = SELL
    /\ cycle.last_quote = MaxPrice + 1
    /\ setup.stop_value = MaxPrice + 1
    /\ setup.start_value < setup.stop_value

\* C17: a ratchet call that changes the setup changes only start_value and
\* stop_value: next_operation, reversal, stop_loss, operational_cost and profit
\* are the same before and after, and the call modifies neither is_tracking nor
\* pending_orders.
C17_RatchetFrame ==
    [][ (RatchetCall /\ setup' # setup)
        => /\ setup'.next_operation = setup.next_operation
           /\ setup'.reversal = setup.reversal
           /\ setup'.stop_loss = setup.stop_loss
           /\ setup'.operational_cost = setup.operational_cost
           /\ setup'.profit = setup.profit
           /\ DOMAIN setup' = DOMAIN setup
           /\ is_tracking' = is_tracking
           /\ pending_orders' = pending_orders ]_vars

\* a SELL band rescaled while tracking with an order pending: the quote lies
\* above every stop_value the ratchet is called with
C17_Witness ==
    /\ cycle.log = RatchetLog
    /\ setup.next_operation = SELL
    /\ cycle.last_quote = MaxPrice + 1 /\ setup.stop_value = MaxPrice + 1
    /\ setup.start_value = MaxPrice
    /\ setup.reversal = 10 /\ setup.stop_loss = 20
    /\ setup.operational_cost = 1 /\ setup.profit = 2
    /\ is_tracking /\ pending_orders = <<PlacedOrderNew>>

----------------------------------------------------------------------------
(* The order of a cycle's steps *)

CompletedCycleLog ==
    <<"get_pending_orders", "get_balance", "get_ticker", "_get_command", "execute",
      "update_start_stop_values_if_necessary">>

\* C18: in every run() that completes without raising, the three reads come
\* before the command selection, one command is selected and executed once, the
\* ratchet runs once after it, and the ratchet is evaluated with the same quote
\* against the next_operation the command left: after a flip the new side's
\* rule decides whether the band moves.
C18_CycleOrdering ==
    [][ (cycle'.log # <<>> /\ cycle'.raised = "none")
        => /\ cycle'.log = CompletedCycleLog
           /\ cycle'.command \in {EvaluatePendingOrdersCommand, BuyBitcoinsCommand,
                                  SellBitcoinsCommand}
           /\ Len(cycle'.set_next_operation_calls) <= 1
           /\ LET left == [setup EXCEPT !.next_operation = setup'.next_operation]
              IN  /\ InNoRatchetZone(left, cycle'.last_quote) => setup' = left
                  /\ ~InNoRatchetZone(left, cycle'.last_quote) => setup' # left ]_vars

\* a buy fired at a quote above stop_value: the side flipped to SELL and the
\* ratchet, applying the SELL rule to the same quote, moved the band up
C18_Witness ==
    /\ Completed /\ cycle.log = CompletedCycleLog
    /\ cycle.command = BuyBitcoinsCommand /\ cycle.buy_calls = 1
    /\ cycle.set_next_operation_calls = <<SELL>>
    /\ cycle.last_quote = 220
    /\ setup.next_operation = SELL
    /\ setup.start_value = 110 /\ setup.stop_value = 220

----------------------------------------------------------------------------
(* The band across cycles *)

\* C19 as stated: started with 0 < start_value < stop_value and fed positive
\* quotes, the engine keeps start_value < stop_value after any sequence of cycles.
C19_BandStaysStrictlyOrdered == setup.start_value < setup.stop_value

\* C19 amended: started with 0 < start_value < stop_value and fed positive
\* quotes, the engine keeps 0 < start_value <= stop_value after any sequence of
\* cycles: the two thresholds are rounded separately and can meet.
C19_BandStaysOrdered == 0 < setup.start_value /\ setup.start_value <= setup.stop_value

\* a completed cycle left the two thresholds equal
C19_Witness ==
    /\ Completed
    /\ setup.start_value = setup.stop_value
    /\ setup.start_value = cycle.last_quote
    /\ setup.next_operation = BUY

\* C20 as stated: from one cycle to the next start_value (and so buy_price) does
\* not increase while next_operation stays BUY and stop_value does not decrease
\* while it stays SELL; after every completed cycle start_value <= last_quote
\* when the side is BUY and stop_value >= last_quote when the side is SELL.
C20_TrailsTheQuote ==
    [][ /\ (setup.next_operation = BUY /\ setup'.next_operation = BUY)
           => /\ setup'.start_value <= setup.start_value
              /\ get_buy_price(setup'.start_value, setup'.reversal)
                   <= get_buy_price(setup.start_value, setup.reversal)
        /\ (setup.next_operation = SELL /\ setup'.next_operation = SELL)
           => setup'.stop_value >= setup.stop_value
        /\ (cycle'.log # <<>> /\ cycle'.raised = "none" /\ setup'.next_operation = BUY)
           => setup'.start_value <= cycle'.last_quote
        /\ (cycle'.log # <<>> /\ cycle'.raised = "none" /\ setup'.next_operation = SELL)
           => setup'.stop_value >= cycle'.last_quote ]_vars

\* C20 amended: the BUY half holds as stated; the SELL half holds for every
\* cycle that begins with start_value <= stop_value (as every cycle does when
\* the initial setup has start_value < stop_value).
C20_TrailsTheQuoteOnOrderedBand ==
    [][ /\ (setup.next_operation = BUY /\ setup'.next_operation = BUY)
           => /\ setup'.start_value <= setup.start_value
              /\ get_buy_price(setup'.start_value, setup'.reversal)
                   <= get_buy_price(setup.start_value, setup.reversal)
        /\ ( /\ setup.next_operation = SELL /\ setup'.next_operation = SELL
             /\ setup.start_value <= setup.stop_value )
           => setup'.stop_value >= setup.stop_value
        /\ (cycle'.log # <<>> /\ cycle'.raised = "none" /\ setup'.next_operation = BUY)
           => setup'.start_value <= cycle'.last_quote
        /\ ( /\ cycle'.log # <<>> /\ cycle'.raised = "none"
             /\ setup'.next_operation = SELL
             /\ setup.start_value <= setup.stop_value )
           => setup'.stop_value >= cycle'.last_quote ]_vars

\* a completed SELL cycle that moved stop_value up to a quote above every
\* initial threshold
C20_Witness ==
    /\ Completed
    /\ cycle.command = SellBitcoinsCommand
    /\ setup.next_operation = SELL
    /\ cycle.last_quote = MaxPrice + 1
    /\ setup.stop_value = MaxPrice + 1
    /\ setup.start_value <= setup.stop_value

----------------------------------------------------------------------------
(* The sides of the orders placed *)

\* the step is a cycle in which an order of the given side was placed
Places(side) ==
    /\ cycle'.log # <<>> /\ cycle'.raised = "none"
    /\ IF side = BUY THEN cycle'.buy_calls = 1 ELSE cycle'.sell_calls = 1

C21_SideFollowsNextOperation ==
    [][ /\ \A side \in {BUY, SELL} :
             Places(side)
               => /\ setup.next_operation = side
                  /\ setup'.next_operation = Opposite(side)
        /\ (setup'.next_operation # setup.next_operation)
             => \/ Places(BUY) \/ Places(SELL)
                \/ /\ cycle'.command = EvaluatePendingOrdersCommand
                   /\ \E i \in 1..Len(pending_orders') :
                         IsFullyFilled(pending_orders'[i]) ]_vars

====
